---------------------------- MODULE Spec2Model ----------------------------
(***************************************************************************)
(* Model of the download/delivery orchestration of music-tgbot             *)
(* (src/handlers/user_menu.py, src/db/db.py).                              *)
(*                                                                         *)
(* Every download task (process_download) is a process whose program       *)
(* counter is the source line of the await at which the coroutine is       *)
(* suspended; one action resumes the coroutine at that await and runs it   *)
(* to its next await, as the asyncio event loop does.  task.cancel() sets  *)
(* cancelReq; the next resumption of the task then throws CancelledError   *)
(* at the await it is suspended at.  asyncio.CancelledError derives from   *)
(* BaseException: "except Exception" lets it pass, a bare "except:"        *)
(* catches it.  asyncio.Semaphore is modelled as CPython 3.11+ implements  *)
(* it (FIFO deque of waiter futures, the slot is handed over at wake-up).  *)
(*                                                                         *)
(* Environment: the status surface (edit_text, delete, answer) fails       *)
(* exactly when it addresses a message that no longer exists; probing,     *)
(* retrieval, post-processing and both deliveries may fail at any call.    *)
(***************************************************************************)
EXTENDS Integers, Sequences, FiniteSets, TLC

\* ---------------------------------------------------------------- bounds
NumJobs == 2      \* download tasks followed individually
MaxActive == 1    \* of which so many may be unfinished at a time
MaxWaiting == 1   \* tasks of other chats suspended in acquire at a time
NumUsers == 1     \* distinct msg.from_user.id values
NumVideos == 2    \* distinct video ids
MaxEntries == 2   \* longest playlist
MaxRejected == 1  \* messages without a URL

MAX_CONCURRENT_DOWNLOADS == 5

Jobs == 1..NumJobs
Users == 1..NumUsers
Videos == 1..NumVideos
None == <<>>

\* An entry of info_dict["entries"]: a video id, or 0 for an entry that is
\* None or has no webpage_url (both are skipped by the loop).
Entries == 0..NumVideos

RECURSIVE SeqsUpTo(_, _)
SeqsUpTo(S, n) ==
  IF n = 0 THEN {<<>>}
  ELSE LET shorter == SeqsUpTo(S, n - 1)
       IN shorter \cup {Append(s, x) : s \in {t \in shorter : Len(t) = n - 1}, x \in S}

\* What a submitted URL designates: one video, or a playlist of entries.
Requests ==
  {[pl |-> FALSE, ents |-> <<v>>] : v \in Videos}
    \cup {[pl |-> TRUE, ents |-> e] : e \in SeqsUpTo(Entries, MaxEntries)}

VARIABLES
  job,            \* per download task: the locals of process_download, and
                  \* what is recorded about it: out (the outcome of every
                  \* item), stale (send_audio refused the cached file_id of
                  \* the current item), wasCancelled, result, summary (the
                  \* closing message of a playlist); anim says that the
                  \* task animation_task refers to is running, strays
                  \* counts running reporters it no longer refers to
  download_semaphore, \* asyncio.Semaphore._value
  waiters,        \* asyncio.Semaphore._waiters, oldest first
  others,         \* number of tasks of other chats inside "async with"
  thread_pool,    \* per task: the video its yt-dlp retrieval thread works on
  files,          \* downloads/<video_id>.mp3: 0 absent, else the writing task
  db,             \* rows of table music, in rowid order: <<video_id, file_id>>
  user_tasks,     \* user_tasks[user_id]
  user_messages,  \* user_messages[user_id] holds a real Message
  cancelling,     \* per user: cancel_downloads suspended in its delete loop
  use_count,      \* total_use_count.use_count
  users,          \* rows of table users, in rowid order: user_id
  rejected        \* messages main has handled without matching a URL

vars == <<job, download_semaphore, waiters, others, thread_pool, files, db,
          user_tasks, user_messages, cancelling, use_count, users, rejected>>

NoJob ==
  [pc |-> 0, owner |-> 0, pl |-> FALSE, ents |-> <<>>, i |-> 0,
   cancelReq |-> FALSE, wasCancelled |-> FALSE,
   msg |-> FALSE, msgReg |-> FALSE, cached_file_id |-> None, stale |-> FALSE,
   afp |-> 0, anim |-> FALSE, strays |-> 0, out |-> <<>>, summary |-> "none",
   result |-> "none"]

Init ==
  /\ job = [j \in Jobs |-> NoJob]
  /\ download_semaphore = MAX_CONCURRENT_DOWNLOADS
  /\ waiters = <<>>
  /\ others = 0
  /\ thread_pool = [j \in Jobs |-> 0]
  /\ files = [v \in Videos |-> 0]
  /\ db = <<>>
  /\ user_tasks = [u \in Users |-> {}]
  /\ user_messages = [u \in Users |-> FALSE]
  /\ cancelling = [u \in Users |-> FALSE]
  /\ use_count = 0
  /\ users = <<>>
  /\ rejected = 0

\* ------------------------------------------------------------- semaphore
\* An entry of Semaphore._waiters: the future of task id (0: a task of
\* another chat), pending, done (woken by _wake_up_next) or cancelled.
Waiter(id, st) == [id |-> id, st |-> st]

RemoveAt(s, n) == SubSeq(s, 1, n - 1) \o SubSeq(s, n + 1, Len(s))

RemoveId(s, id) == SelectSeq(s, LAMBDA w : w.id # id)

\* The state of the future task j awaits in acquire().
FutOf(j) ==
  IF \E n \in 1..Len(waiters) : waiters[n].id = j
  THEN waiters[CHOOSE n \in 1..Len(waiters) : waiters[n].id = j].st
  ELSE "none"

\* Semaphore.locked()
locked ==
  \/ download_semaphore = 0
  \/ \E n \in 1..Len(waiters) : waiters[n].st # "cancelled"

HasPending(ws) == \E n \in 1..Len(ws) : ws[n].st = "pending"

\* A wake-up that completes the newest pending future instead of the oldest.
RECURSIVE wake_up_newest(_)
wake_up_newest(ws) ==
  IF ws = <<>> THEN <<>>
  ELSE IF ws[Len(ws)].st = "pending"
       THEN SubSeq(ws, 1, Len(ws) - 1) \o <<[ws[Len(ws)] EXCEPT !.st = "done"]>>
       ELSE wake_up_newest(SubSeq(ws, 1, Len(ws) - 1)) \o <<ws[Len(ws)]>>

\* Semaphore._wake_up_next() on a deque with a pending future: the oldest
\* one is completed.
RECURSIVE wake_up_next(_)
wake_up_next(ws) ==
  IF ws = <<>> THEN <<>>
  ELSE IF Head(ws).st = "pending"
       THEN <<[Head(ws) EXCEPT !.st = "done"]>> \o Tail(ws)
       ELSE <<Head(ws)>> \o wake_up_next(Tail(ws))

\* "while self._value > 0: if not self._wake_up_next(): break", each
\* wake-up taking one from _value: <<_value, _waiters>> afterwards.
RECURSIVE WakeLoop(_, _)
WakeLoop(val, ws) ==
  IF val > 0 /\ HasPending(ws) THEN WakeLoop(val - 1, wake_up_next(ws))
  ELSE <<val, ws>>

\* Semaphore.release(): _value += 1, then _wake_up_next() once.
release(val, ws) ==
  IF HasPending(ws) THEN <<val, wake_up_next(ws)>> ELSE <<val + 1, ws>>

\* ------------------------------------------------------------ Cache Store
\* Music.get_file_id: fetchone() of the rows with this video_id, or None.
RECURSIVE get_file_id(_, _)
get_file_id(rows, video_id) ==
  IF rows = <<>> THEN None
  ELSE IF Head(rows)[1] = video_id THEN Head(rows)[2]
       ELSE get_file_id(Tail(rows), video_id)

\* Music.add_data: INSERT of one more row (the table has no unique column).
add_data(rows, video_id, file_id) == Append(rows, <<video_id, file_id>>)

\* Music.remove_data: DELETE of every row with this video_id.
remove_data(rows, video_id) == SelectSeq(rows, LAMBDA row : row[1] # video_id)

\* An add_user that inserts without looking for the user first.
add_user_always(rows, user_id) == Append(rows, user_id)

\* Analytics.add_user: INSERT unless a row with this user_id exists.
add_user(rows, user_id) ==
  IF \E n \in 1..Len(rows) : rows[n] = user_id THEN rows
  ELSE Append(rows, user_id)

\* Analytics.increment_use_count: use_count = use_count + 1 in row 1.
increment_use_count(n) == n + 1

\* The file_id Telegram returns for the upload of item n of task j.
NewFileId(j, n) == <<j, n>>

\* --------------------------------------------------------------- helpers
\* os.remove(audio_filepath) guarded by os.path.exists.
RemoveFile(fs, v) == IF v # 0 THEN [fs EXCEPT ![v] = 0] ELSE fs

Video(r) == r.ents[r.i]

SetOut(r, o) ==
  IF r.i \in DOMAIN r.out /\ r.out[r.i] = "Queued"
  THEN [r EXCEPT !.out[r.i] = o] ELSE r

\* Every item that has no outcome yet ends Cancelled.
CancelOut(r) ==
  [r EXCEPT !.out = [n \in DOMAIN r.out |->
                       IF r.out[n] = "Queued" THEN "Cancelled" ELSE r.out[n]]]

\* The same awaits when line 461 does not cancel the reporter of the
\* retrieval before the reporter of the conversion is created.
StoppedAtWithout461 ==
  {441, 482, 514, 519, 532, 548, 589, 607, 639, 650, 656, 666, 677}

\* The awaits the task reaches straight after an animation_task.cancel()
\* (lines 438-439, 461, 481, 512, 517, 531, 545-546, 588, 606, 638, 649,
\* 655, 663-664, 675-676).
StoppedAt ==
  {441, 462, 482, 514, 519, 532, 548, 589, 607, 639, 650, 656, 666, 677}

\* asyncio.create_task(animate_progress(...)) assigned to animation_task: a
\* reporter that is still running is no longer referred to.
Animate(r) ==
  [r EXCEPT !.strays = @ + (IF r.anim THEN 1 ELSE 0), !.anim = TRUE]

\* msgReg says that user_messages[owner] holds the task's progress_msg and
\* that this message still exists (deleting a message that is gone fails
\* and changes nothing).
Norm(r) ==
  [r EXCEPT !.msgReg = @ /\ r.msg,
            !.anim = @ /\ r.pc \notin StoppedAt]

\* One resumption of task j that ends suspended at another await: r is its
\* frame, fs the files, d the music table, um user_messages, tp the thread
\* pool and ut user_tasks afterwards.
Step(j, r, fs, d, um, tp, ut) ==
  /\ job' = [job EXCEPT ![j] = Norm(r)]
  /\ files' = fs
  /\ db' = d
  /\ user_messages' = um
  /\ thread_pool' = tp
  /\ user_tasks' = ut
  /\ UNCHANGED <<download_semaphore, waiters, others, cancelling, use_count, users,
                 rejected>>

Goto(j, r) == Step(j, r, files, db, user_messages, thread_pool, user_tasks)

\* The frame of a finished task: its locals are gone; its reporter is not.
Ended(r, res) ==
  [r EXCEPT !.pc = 686, !.result = res, !.cancelReq = FALSE,
            !.msg = FALSE, !.msgReg = FALSE, !.cached_file_id = None,
            !.stale = FALSE, !.afp = 0, !.i = 0,
            \* a reporter whose message is gone ends at its next edit_text
            !.anim = r.anim /\ r.msg]

\* Task j leaves process_download from inside "async with": the outer
\* finally (lines 682-686), Semaphore.release() of __aexit__, and the
\* done-callback registered by main (lines 347-349).
Exit(j, r, fs, d, res) ==
  LET s == release(download_semaphore, waiters) IN
  /\ job' = [job EXCEPT ![j] = Ended(r, res)]
  /\ download_semaphore' = s[1]
  /\ waiters' = s[2]
  /\ files' = RemoveFile(fs, r.afp)
  /\ db' = d
  /\ user_tasks' = [user_tasks EXCEPT ![r.owner] = @ \ {<<"dl", j>>}]
  /\ UNCHANGED <<others, thread_pool, user_messages, cancelling, use_count,
                 users, rejected>>

Resumable(j, line) == job[j].pc = line /\ ~job[j].cancelReq

\* ------------------------------------------------------------ dispatcher
Max(S) == IF S = {} THEN 0 ELSE CHOOSE x \in S : \A y \in S : y <= x

\* Video ids are interchangeable: they are numbered in the order in which
\* requests first mention them (m is the highest id mentioned so far).
RECURSIVE InOrderOfMention(_, _)
InOrderOfMention(ents, m) ==
  IF ents = <<>> THEN TRUE
  ELSE /\ Head(ents) <= m + 1
       /\ InOrderOfMention(Tail(ents), Max({m, Head(ents)}))

Mentioned == UNION {{job[k].ents[n] : n \in 1..Len(job[k].ents)} : k \in Jobs}

\* Handler main for a message whose text matches youtube_regex, from the
\* return of "await msg.answer" (line 327) to the end: analytics, the two
\* create_task calls and their registration.
main(j, u, q) ==
  /\ job[j].pc = 0
  /\ \A k \in Jobs : k < j => job[k].pc # 0
  /\ InOrderOfMention(q.ents, Max(Mentioned))
  /\ job' = [job EXCEPT ![j] =
               [NoJob EXCEPT !.pc = 352, !.owner = u, !.pl = q.pl,
                             !.ents = q.ents, !.msg = TRUE, !.anim = TRUE,
                             !.out = [n \in 1..Len(q.ents) |-> "Queued"]]]
  /\ users' = add_user(users, u)
  /\ use_count' = increment_use_count(use_count)
  /\ user_tasks' = [user_tasks EXCEPT ![u] = @ \cup {<<"an", j>>, <<"dl", j>>}]
  /\ UNCHANGED <<download_semaphore, waiters, others, thread_pool, files, db,
                 user_messages, cancelling, rejected>>

\* process_download without "async with download_semaphore": the task runs
\* on to the probe without taking a slot.
acquire_skipped(j) ==
  /\ Resumable(j, 352)
  /\ job' = [job EXCEPT ![j].pc = 378]
  /\ UNCHANGED <<download_semaphore, waiters, others, thread_pool, files, db,
                 user_tasks, user_messages, cancelling, use_count, users,
                 rejected>>

\* msg.text of a message without a URL: no text at all, or a text
\* youtube_regex does not match.
Texts == {"none", "junk", "url"}

\* "if not text: return" and re.search(youtube_regex, text).
match(text) == text = "url"

\* A handler that counts the use before it looks for a URL.
main_rejected_counted(u, text) ==
  /\ ~match(text)
  /\ rejected < MaxRejected
  /\ rejected' = rejected + 1
  /\ use_count' = use_count + 1
  /\ UNCHANGED <<job, download_semaphore, waiters, others, thread_pool, files,
                 db, user_tasks, user_messages, cancelling, users>>

\* Handler main for such a message (lines 303-314): nothing after
\* "if match:" runs.
main_rejected(u, text) ==
  /\ ~match(text)
  /\ rejected < MaxRejected
  /\ rejected' = rejected + 1
  /\ UNCHANGED <<job, download_semaphore, waiters, others, thread_pool, files,
                 db, user_tasks, user_messages, cancelling, use_count, users>>

\* ------------------------------------------------------------ the limiter
\* First step of process_download: Semaphore.acquire() of "async with".
\* With a free slot and no waiter it takes the slot and runs on to the
\* probe (line 378); otherwise it appends its future and suspends.
acquire(j) ==
  /\ Resumable(j, 352)
  /\ IF ~locked
     THEN /\ download_semaphore' = download_semaphore - 1
          /\ job' = [job EXCEPT ![j].pc = 378]
          /\ UNCHANGED waiters
     ELSE /\ waiters' = Append(waiters, Waiter(j, "pending"))
          /\ job' = [job EXCEPT ![j].pc = 355]
          /\ UNCHANGED download_semaphore
  /\ UNCHANGED <<others, thread_pool, files, db, user_tasks, user_messages,
                 cancelling, use_count, users, rejected>>

\* The waiter wakes with its future completed: it leaves the deque, runs
\* the wake-up loop of acquire()'s finally and enters the block.
acquire_wakeup(j) ==
  /\ Resumable(j, 355)
  /\ FutOf(j) = "done"
  /\ LET s == WakeLoop(download_semaphore, RemoveId(waiters, j))
     IN /\ download_semaphore' = s[1]
        /\ waiters' = s[2]
  /\ job' = [job EXCEPT ![j].pc = 378]
  /\ UNCHANGED <<others, thread_pool, files, db, user_tasks, user_messages,
                 cancelling, use_count, users, rejected>>

\* A download task of a chat that is not followed individually: it enters
\* "async with download_semaphore" at once, ...
other_enter ==
  /\ ~locked
  /\ download_semaphore' = download_semaphore - 1
  /\ others' = others + 1
  /\ UNCHANGED <<job, waiters, thread_pool, files, db, user_tasks,
                 user_messages, cancelling, use_count, users, rejected>>

\* ... or suspends in acquire(), ...
other_wait ==
  /\ locked
  /\ Cardinality({n \in 1..Len(waiters) : waiters[n].id = 0}) < MaxWaiting
  /\ waiters' = Append(waiters, Waiter(0, "pending"))
  /\ UNCHANGED <<job, download_semaphore, others, thread_pool, files, db,
                 user_tasks, user_messages, cancelling, use_count, users,
                 rejected>>

\* ... is woken and enters, ...
other_wakeup ==
  \E n \in 1..Len(waiters) :
    /\ waiters[n] = Waiter(0, "done")
    /\ LET s == WakeLoop(download_semaphore, RemoveAt(waiters, n))
       IN /\ download_semaphore' = s[1]
          /\ waiters' = s[2]
    /\ others' = others + 1
    /\ UNCHANGED <<job, thread_pool, files, db, user_tasks, user_messages,
                   cancelling, use_count, users, rejected>>

\* ... and leaves the block: Semaphore.release().
other_exit ==
  /\ others > 0
  /\ others' = others - 1
  /\ LET s == release(download_semaphore, waiters)
     IN /\ download_semaphore' = s[1]
        /\ waiters' = s[2]
  /\ UNCHANGED <<job, thread_pool, files, db, user_tasks, user_messages,
                 cancelling, use_count, users, rejected>>

\* ------------------------------------------------- process_download: probe
\* Every item without an outcome fails with the job.
FailAll(r) ==
  [r EXCEPT !.out = [n \in DOMAIN r.out |->
                       IF r.out[n] = "Queued" THEN "Failed" ELSE r.out[n]]]

\* A loop that takes the entries from the last one.
EntryFromLast(r, n, rows) ==
  IF n > Len(r.ents) \/ r.ents[Len(r.ents)] = 0
  THEN [r EXCEPT !.i = Len(r.ents) + 1, !.pc = 548]
  ELSE [r EXCEPT !.i = Len(r.ents), !.cached_file_id = None, !.stale = FALSE,
                 !.afp = r.ents[Len(r.ents)], !.pc = 435]

\* Lines 401-431: the loop header from entry n on.  Null entries are
\* skipped; for the first real one the cache is consulted.
RECURSIVE Entry(_, _, _)
Entry(r, n, rows) ==
  IF n > Len(r.ents)
  THEN [r EXCEPT !.i = n, !.pc = 548]
  ELSE IF r.ents[n] = 0
       THEN Entry([r EXCEPT !.out[n] = "Skipped"], n + 1, rows)
       ELSE LET c == get_file_id(rows, r.ents[n])
            IN IF c # None
               THEN [r EXCEPT !.i = n, !.cached_file_id = c, !.stale = FALSE,
                              !.pc = 424]
               ELSE [r EXCEPT !.i = n, !.cached_file_id = None, !.stale = FALSE,
                              !.afp = r.ents[n], !.pc = 435]

\* Lines 557-569: a single video; a hit goes into send_cached_audio.
Single(r, rows) ==
  LET c == get_file_id(rows, r.ents[1])
  IN IF c # None
     THEN [r EXCEPT !.i = 1, !.cached_file_id = c, !.pc = 216]
     ELSE [r EXCEPT !.i = 1, !.afp = r.ents[1], !.pc = 571]

\* send_cached_audio returned False: lines 431-435 or 569-571.
Fallback(r) ==
  [r EXCEPT !.afp = Video(r), !.pc = IF r.pl THEN 435 ELSE 571]

\* Line 378, "await run_in_threadpool(ydl.extract_info, download=False)":
\* it raises, or (ignoreerrors) returns None so that line 392 raises
\* TypeError, or returns the info_dict of the URL.  Only when it returns
\* is line 389, animation_task.cancel(), reached.
process_download_378(j) ==
  /\ Resumable(j, 378)
  /\ \E o \in {"info", "none", "exc"} :
       LET r == [job[j] EXCEPT !.anim = @ /\ o = "exc"] IN
       Goto(j, CASE o = "exc" -> [FailAll(r) EXCEPT !.pc = 382]
                 [] o = "none" -> [FailAll(r) EXCEPT !.pc = 677]
                 [] OTHER -> IF r.pl
                             THEN IF r.ents = <<>> THEN [r EXCEPT !.pc = 397]
                                  ELSE Entry(r, 1, db)
                             ELSE Single(r, db))

\* Line 382: edit_text of the extraction failure, then return.
process_download_382(j) ==
  /\ Resumable(j, 382)
  /\ IF job[j].msg THEN Exit(j, job[j], files, db, "returned")
     ELSE Goto(j, [job[j] EXCEPT !.pc = 677])

\* A task that takes a playlist without entries for a finished playlist.
process_download_397_as_finished(j) ==
  /\ Resumable(j, 397)
  /\ Goto(j, [job[j] EXCEPT !.pc = 548])

\* Lines 397-399: the playlist has no entries.
process_download_397(j) ==
  /\ Resumable(j, 397)
  /\ Goto(j, [job[j] EXCEPT !.pc = 398])

process_download_398(j) ==
  /\ Resumable(j, 398)
  /\ IF job[j].msg THEN Exit(j, job[j], files, db, "returned")
     ELSE Goto(j, [job[j] EXCEPT !.pc = 677])

\* -------------------------------------------------------- send_cached_audio
\* Line 216, "await progress_msg.delete()" inside try/except Exception: a
\* failure removes the row (line 226) and returns False.
send_cached_audio_216(j) ==
  /\ Resumable(j, 216)
  /\ LET r == job[j] IN
     IF r.msg THEN Goto(j, [r EXCEPT !.msg = FALSE, !.pc = 217])
     ELSE Step(j, Fallback(r), files, remove_data(db, Video(r)),
               user_messages, thread_pool, user_tasks)

\* Line 217, "await bot.send_audio(audio=file_id)": True, or the failure
\* path of lines 223-227.
send_cached_audio_217(j) ==
  /\ Resumable(j, 217)
  /\ \E ok \in BOOLEAN :
       LET r == job[j] IN
       IF ok
       THEN IF r.pl THEN Goto(j, Entry(SetOut(r, "Done"), r.i + 1, db))
            ELSE Exit(j, SetOut(r, "Done"), files, db, "returned")
       ELSE Step(j, [Fallback(r) EXCEPT !.stale = TRUE], files,
                 remove_data(db, Video(r)), user_messages, thread_pool,
                 user_tasks)

\* ------------------------------------------- process_download: single video
\* Line 571: edit_text, then the reporter (576-578) and the retrieval.
process_download_571(j) ==
  /\ Resumable(j, 571)
  /\ LET r == job[j] IN
     IF r.msg
     THEN Step(j, [Animate(r) EXCEPT !.pc = 585], files, db, user_messages,
               [thread_pool EXCEPT ![j] = Video(r)],
               [user_tasks EXCEPT ![r.owner] = @ \cup {<<"an", j>>}])
     ELSE Goto(j, [SetOut(r, "Failed") EXCEPT !.pc = 677])

process_download_589(j) ==
  /\ Resumable(j, 589)
  /\ LET r == job[j] IN
     IF r.msg
     THEN Step(j, [Animate(r) EXCEPT !.pc = 604], files, db, user_messages,
               thread_pool,
               [user_tasks EXCEPT ![r.owner] = @ \cup {<<"an", j>>}])
     ELSE Goto(j, [SetOut(r, "Failed") EXCEPT !.pc = 677])

\* Line 604, "await process_audio(...)": it fails at will, and always when
\* the artifact is gone.
process_download_604(j) ==
  /\ Resumable(j, 604)
  /\ \E ok \in BOOLEAN :
       LET r == job[j] IN
       IF ok /\ files[r.afp] # 0
       THEN Goto(j, [r EXCEPT !.pc = 607])
       ELSE Goto(j, [SetOut(r, "Failed") EXCEPT !.pc = 650])

process_download_607(j) ==
  /\ Resumable(j, 607)
  /\ LET r == job[j] IN
     IF r.msg
     THEN Step(j, [Animate(r) EXCEPT !.pc = 621], files, db, user_messages,
               thread_pool,
               [user_tasks EXCEPT ![r.owner] = @ \cup {<<"an", j>>}])
     ELSE Goto(j, [SetOut(r, "Failed") EXCEPT !.pc = 650])

process_download_621(j) ==
  /\ Resumable(j, 621)
  /\ Goto(j, [job[j] EXCEPT !.pc = 624])

\* Line 624, "await bot.send_audio(FSInputFile(audio_filepath))", and the
\* cache write of line 636.
process_download_624(j) ==
  /\ Resumable(j, 624)
  /\ \E ok \in BOOLEAN :
       LET r == job[j] IN
       IF ok /\ files[r.afp] # 0
       THEN Step(j, [SetOut(r, "Done") EXCEPT !.pc = 639], files,
                 add_data(db, Video(r), NewFileId(j, r.i)),
                 user_messages, thread_pool, user_tasks)
       ELSE Goto(j, [SetOut(r, "Failed") EXCEPT !.pc = 650])

process_download_639(j) ==
  /\ Resumable(j, 639)
  /\ LET r == job[j] IN
     IF r.msg THEN Exit(j, r, files, db, "returned")
     ELSE Goto(j, [r EXCEPT !.pc = 650])

\* Lines 648-653: the handler of the inner try.
process_download_650(j) ==
  /\ Resumable(j, 650)
  /\ Goto(j, [job[j] EXCEPT !.pc = 651])

process_download_651(j) ==
  /\ Resumable(j, 651)
  /\ Goto(j, [job[j] EXCEPT !.pc = 652])

process_download_652(j) ==
  /\ Resumable(j, 652)
  /\ LET r == job[j] IN
     IF r.msg THEN Goto(j, [r EXCEPT !.msg = FALSE, !.pc = 653])
     ELSE Goto(j, [r EXCEPT !.pc = 677])

process_download_653(j) ==
  /\ Resumable(j, 653)
  /\ Exit(j, job[j], files, db, "returned")

\* Lines 654-659: no artifact after the retrieval.
process_download_656(j) ==
  /\ Resumable(j, 656)
  /\ Goto(j, [job[j] EXCEPT !.pc = 657])

process_download_657(j) ==
  /\ Resumable(j, 657)
  /\ Goto(j, [job[j] EXCEPT !.pc = 658])

process_download_658(j) ==
  /\ Resumable(j, 658)
  /\ LET r == job[j] IN
     IF r.msg THEN Goto(j, [r EXCEPT !.msg = FALSE, !.pc = 659])
     ELSE Goto(j, [r EXCEPT !.pc = 677])

process_download_659(j) ==
  /\ Resumable(j, 659)
  /\ Exit(j, job[j], files, db, "returned")

\* ----------------------------------------- process_download: outer handlers
\* Lines 661-672, "except asyncio.CancelledError": an exception raised in
\* the handler leaves the task through the finally.
process_download_666(j) ==
  /\ Resumable(j, 666)
  /\ LET r == job[j] IN
     IF r.msg THEN Goto(j, [r EXCEPT !.pc = 671])
     ELSE Exit(j, r, files, db, "raised")

process_download_671(j) ==
  /\ Resumable(j, 671)
  /\ Goto(j, [job[j] EXCEPT !.pc = 672])

process_download_672(j) ==
  /\ Resumable(j, 672)
  /\ Exit(j, job[j], files, db, IF job[j].msg THEN "returned" ELSE "raised")

\* Lines 674-680, "except Exception".
process_download_677(j) ==
  /\ Resumable(j, 677)
  /\ Goto(j, [job[j] EXCEPT !.pc = 678])

process_download_678(j) ==
  /\ Resumable(j, 678)
  /\ Goto(j, [job[j] EXCEPT !.pc = 679])

process_download_679(j) ==
  /\ Resumable(j, 679)
  /\ LET r == job[j] IN
     IF r.msg THEN Goto(j, [r EXCEPT !.msg = FALSE, !.pc = 680])
     ELSE Exit(j, r, files, db, "raised")

process_download_680(j) ==
  /\ Resumable(j, 680)
  /\ Exit(j, job[j], files, db, "returned")

\* ---------------------------------------------- process_download: playlist
\* Line 424, "await progress_msg.delete()" under a bare except.
process_download_424(j) ==
  /\ Resumable(j, 424)
  /\ Goto(j, [job[j] EXCEPT !.msg = FALSE, !.pc = 216])

\* Line 435, the same under a bare except, at the head of the item's try.
process_download_435(j) ==
  /\ Resumable(j, 435)
  /\ Goto(j, [job[j] EXCEPT !.msg = FALSE, !.pc = 441])

\* Lines 441-458: the new progress message, its registration, the reporter
\* and the start of the retrieval.
process_download_441(j) ==
  /\ Resumable(j, 441)
  /\ LET r == job[j] IN
     Step(j, [Animate(r) EXCEPT !.msg = TRUE, !.msgReg = TRUE, !.pc = 458],
          files, db,
          [user_messages EXCEPT ![r.owner] = TRUE],
          [thread_pool EXCEPT ![j] = Video(r)],
          [user_tasks EXCEPT ![r.owner] = @ \cup {<<"an", j>>}])

process_download_462(j) ==
  /\ Resumable(j, 462)
  /\ LET r == job[j] IN
     IF r.msg
     THEN Step(j, [Animate(r) EXCEPT !.pc = 479], files, db, user_messages,
               thread_pool,
               [user_tasks EXCEPT ![r.owner] = @ \cup {<<"an", j>>}])
     ELSE Goto(j, [SetOut(r, "Failed") EXCEPT !.pc = 532])

process_download_479(j) ==
  /\ Resumable(j, 479)
  /\ \E ok \in BOOLEAN :
       LET r == job[j] IN
       IF ok /\ files[r.afp] # 0
       THEN Goto(j, [r EXCEPT !.pc = 482])
       ELSE Goto(j, [SetOut(r, "Failed") EXCEPT !.pc = 514])

process_download_482(j) ==
  /\ Resumable(j, 482)
  /\ LET r == job[j] IN
     IF r.msg
     THEN Step(j, [Animate(r) EXCEPT !.pc = 497], files, db, user_messages,
               thread_pool,
               [user_tasks EXCEPT ![r.owner] = @ \cup {<<"an", j>>}])
     ELSE Goto(j, [SetOut(r, "Failed") EXCEPT !.pc = 514])

\* An upload at line 497 after which the row is written whether or not
\* send_audio succeeded.
process_download_497_write_anyway(j) ==
  /\ Resumable(j, 497)
  /\ \E ok \in BOOLEAN :
       LET r == job[j]
           d == add_data(db, Video(r), NewFileId(j, r.i))
       IN IF ok /\ files[r.afp] # 0
          THEN Step(j, Entry(SetOut(r, "Done"), r.i + 1, d),
                    RemoveFile(files, r.afp), d, user_messages, thread_pool,
                    user_tasks)
          ELSE Step(j, [SetOut(r, "Failed") EXCEPT !.pc = 514], files, d,
                    user_messages, thread_pool, user_tasks)

\* Line 497, send_audio of the artifact; on success the cache write of line
\* 510, the finally of lines 540-543 and the next entry.
process_download_497(j) ==
  /\ Resumable(j, 497)
  /\ \E ok \in BOOLEAN :
       LET r == job[j] IN
       IF ok /\ files[r.afp] # 0
       THEN LET d == add_data(db, Video(r), NewFileId(j, r.i))
            IN Step(j, Entry(SetOut(r, "Done"), r.i + 1, d),
                    RemoveFile(files, r.afp), d, user_messages, thread_pool,
                    user_tasks)
       ELSE Goto(j, [SetOut(r, "Failed") EXCEPT !.pc = 514])

\* A handler of the inner try that lets the error leave the loop: the
\* finally of the item runs and the job-level handler (line 674) takes over.
process_download_514_abort(j) ==
  /\ Resumable(j, 514)
  /\ LET r == job[j] IN
     Step(j, [r EXCEPT !.pc = 677], RemoveFile(files, r.afp), db,
          user_messages, thread_pool, user_tasks)

\* Line 514 (handler of the inner try) and line 519 (no artifact): the
\* error is answered, the finally runs, the loop goes on.
process_download_514(j) ==
  /\ Resumable(j, 514)
  /\ LET r == job[j] IN
     Step(j, Entry(r, r.i + 1, db), RemoveFile(files, r.afp), db,
          user_messages, thread_pool, user_tasks)

process_download_519(j) ==
  /\ Resumable(j, 519)
  /\ LET r == job[j] IN
     Step(j, Entry(r, r.i + 1, db), RemoveFile(files, r.afp), db,
          user_messages, thread_pool, user_tasks)

\* Lines 530-539, "except Exception" of the item's try.
process_download_532(j) ==
  /\ Resumable(j, 532)
  /\ LET r == job[j] IN
     Step(j, [r EXCEPT !.pc = 534], files, db,
          [user_messages EXCEPT ![r.owner] = TRUE], thread_pool, user_tasks)

process_download_534(j) ==
  /\ Resumable(j, 534)
  /\ Goto(j, [job[j] EXCEPT !.pc = 536])

process_download_536(j) ==
  /\ Resumable(j, 536)
  /\ LET r == job[j] IN
     Step(j, Entry(r, r.i + 1, db), RemoveFile(files, r.afp), db,
          user_messages, thread_pool, user_tasks)

\* The text of done_msg (line 551) for a playlist with these outcomes: a
\* constant.
playlist_summary(o) == "done"

\* Lines 544-553: after the loop.
process_download_548(j) ==
  /\ Resumable(j, 548)
  /\ Goto(j, [job[j] EXCEPT !.msg = FALSE, !.pc = 551])

process_download_551(j) ==
  /\ Resumable(j, 551)
  /\ Goto(j, [job[j] EXCEPT !.summary = playlist_summary(job[j].out),
                            !.pc = 552])

process_download_552(j) ==
  /\ Resumable(j, 552)
  /\ Goto(j, [job[j] EXCEPT !.pc = 553])

process_download_553(j) ==
  /\ Resumable(j, 553)
  /\ Exit(j, job[j], files, db, "returned")

\* ------------------------------------------------------------ download_video
\* The yt-dlp thread started by download_video ends: it has written
\* downloads/<id>.mp3 (for an entry with or without a thumbnail), or
\* nothing (ignoreerrors), or it raises.  A task
\* still awaiting it (line 458 or 585) resumes; a task that was cancelled
\* meanwhile no longer listens, but the thread ran to its end all the same.
download_video(j) ==
  /\ thread_pool[j] # 0
  /\ \E o \in {"file", "nothumb", "nofile", "exc"} :
       LET r == job[j]
           v == thread_pool[j]
           fs == IF o \in {"file", "nothumb"} THEN [files EXCEPT ![v] = j]
                 ELSE files
           tp == [thread_pool EXCEPT ![j] = 0]
           \* os.path.exists(audio_filepath) and thumbnail_url
           found == fs[v] # 0 /\ o # "nothumb"
       IN IF r.pc \in {458, 585} /\ ~r.cancelReq
          THEN Step(j,
                    IF o = "exc"
                    THEN [SetOut(r, "Failed") EXCEPT !.pc = IF r.pl THEN 532 ELSE 677]
                    ELSE IF found
                         THEN [r EXCEPT !.pc = IF r.pl THEN 462 ELSE 589]
                         ELSE [SetOut(r, "Failed") EXCEPT
                                 !.pc = IF r.pl THEN 519 ELSE 656],
                    fs, db, user_messages, tp, user_tasks)
          ELSE /\ files' = fs
               /\ thread_pool' = tp
               /\ UNCHANGED <<job, download_semaphore, waiters, others, db,
                              user_tasks, user_messages, cancelling,
                              use_count, users, rejected>>

\* ------------------------------------------------------------ cancellation
\* Awaits of progress_msg.delete(): a cancelled call may or may not have
\* deleted the message.
DeleteAwaits == {216, 398, 424, 435, 548, 639, 652, 658, 672, 679}

\* Awaits inside the item's try of the playlist loop (lines 433-543): the
\* handler of lines 523-528 or the finally of lines 540-543 removes the
\* artifact before CancelledError reaches line 661.
InItemTry == {441, 458, 462, 479, 482, 497, 514, 519, 532, 534, 536}

\* Awaits inside the inner try of the single path (lines 602-639), with the
\* handler of lines 641-646.
InInnerTry == {604, 607, 621, 624, 639}

\* Awaits under a bare "except:" (lines 423-426, 434-437, 547-550).
InBareExcept == {424, 435, 548}

\* Awaits inside the handlers of lines 661-680.
InOuterHandler == {666, 671, 672, 677, 678, 679, 680}

AfterBareExcept(line) == CASE line = 424 -> 216 [] line = 435 -> 441 [] OTHER -> 551

\* task.cancel() reached the task before its first step: the coroutine
\* never runs; the done-callback does.
cancelled_before_start(j) ==
  /\ job[j].pc = 352
  /\ job[j].cancelReq
  /\ job' = [job EXCEPT ![j] = Ended(CancelOut(job[j]), "cancelled")]
  /\ user_tasks' = [user_tasks EXCEPT ![job[j].owner] = @ \ {<<"dl", j>>}]
  /\ UNCHANGED <<download_semaphore, waiters, others, thread_pool, files, db,
                 user_messages, cancelling, use_count, users, rejected>>

\* CancelledError inside Semaphore.acquire() that does not give back a slot
\* already handed to the future.
cancelled_in_acquire_leak(j) ==
  /\ job[j].pc = 355
  /\ job[j].cancelReq
  /\ LET s == WakeLoop(download_semaphore, RemoveId(waiters, j))
     IN /\ download_semaphore' = s[1]
        /\ waiters' = s[2]
  /\ job' = [job EXCEPT ![j] = Ended(CancelOut(job[j]), "cancelled")]
  /\ user_tasks' = [user_tasks EXCEPT ![job[j].owner] = @ \ {<<"dl", j>>}]
  /\ UNCHANGED <<others, thread_pool, files, db, user_messages, cancelling,
                 use_count, users, rejected>>

\* CancelledError inside Semaphore.acquire(): the future leaves the deque;
\* a slot already handed to it is given back; the wake-up loop runs; the
\* block of "async with" is never entered.
cancelled_in_acquire(j) ==
  /\ job[j].pc = 355
  /\ job[j].cancelReq
  /\ LET val == download_semaphore + (IF FutOf(j) = "done" THEN 1 ELSE 0)
         s == WakeLoop(val, RemoveId(waiters, j))
     IN /\ download_semaphore' = s[1]
        /\ waiters' = s[2]
  /\ job' = [job EXCEPT ![j] = Ended(CancelOut(job[j]), "cancelled")]
  /\ user_tasks' = [user_tasks EXCEPT ![job[j].owner] = @ \ {<<"dl", j>>}]
  /\ UNCHANGED <<others, thread_pool, files, db, user_messages, cancelling,
                 use_count, users, rejected>>

\* CancelledError thrown at the await the task is suspended at, inside the
\* block of "async with".
throw_cancelled(j) ==
  /\ job[j].cancelReq
  /\ job[j].pc \notin {0, 352, 355, 686}
  /\ \E gone \in (IF job[j].pc \in DeleteAwaits THEN BOOLEAN ELSE {FALSE}) :
       LET line == job[j].pc
           r == [job[j] EXCEPT !.cancelReq = FALSE, !.msg = @ /\ ~gone]
       IN IF line \in InBareExcept
          THEN Goto(j, [r EXCEPT !.pc = AfterBareExcept(line)])
          ELSE IF line \in InOuterHandler
          THEN Exit(j, r, files, db, "cancelled")
          ELSE Step(j, [CancelOut(r) EXCEPT !.pc = 666],
                    IF line \in InItemTry \cup InInnerTry
                    THEN RemoveFile(files, r.afp) ELSE files,
                    db, user_messages, thread_pool, user_tasks)

\* --------------------------------------------------------- cancel_downloads
\* Lines 268-276: nothing to cancel.
cancel_downloads_nothing(u) ==
  /\ ~cancelling[u]
  /\ user_tasks[u] = {}
  /\ UNCHANGED vars

\* The tasks "if not task.done() and not task.cancelled(): task.cancel()"
\* reaches in user_tasks[u]; a task whose future in acquire() is pending
\* has that future cancelled.  The reporters of task k are listed exactly
\* when <<"an", k>> is.
Reached(u, k) == <<"dl", k>> \in user_tasks[u] /\ job[k].pc \notin {0, 686}

\* Lines 278-293 up to the first await: task.cancel() on every task of the
\* user that is not done; with no Message in user_messages[user_id] the
\* loop of lines 285-289 does not suspend and both lists are cleared.
cancel_downloads(u) ==
  /\ ~cancelling[u]
  /\ user_tasks[u] # {}
  /\ job' = [k \in Jobs |->
               LET r == IF <<"an", k>> \in user_tasks[u]
                        THEN [job[k] EXCEPT !.anim = FALSE, !.strays = 0]
                        ELSE job[k]
               IN IF Reached(u, k)
                  THEN [r EXCEPT !.cancelReq = TRUE, !.wasCancelled = TRUE]
                  ELSE r]
  /\ waiters' = [n \in 1..Len(waiters) |->
                   IF /\ waiters[n].id # 0
                      /\ Reached(u, waiters[n].id)
                      /\ waiters[n].st = "pending"
                   THEN [waiters[n] EXCEPT !.st = "cancelled"]
                   ELSE waiters[n]]
  /\ IF user_messages[u]
     THEN /\ cancelling' = [cancelling EXCEPT ![u] = TRUE]
          /\ UNCHANGED user_tasks
     ELSE /\ user_tasks' = [user_tasks EXCEPT ![u] = {}]
          /\ UNCHANGED cancelling
  /\ UNCHANGED <<download_semaphore, others, thread_pool, files, db,
                 user_messages, use_count, users, rejected>>

\* Line 287, "await message.delete()", for a progress message of task j.
cancel_downloads_287(u, j) ==
  /\ cancelling[u]
  /\ job[j].owner = u
  /\ job[j].msgReg
  /\ job' = [job EXCEPT ![j].msg = FALSE, ![j].msgReg = FALSE]
  /\ UNCHANGED <<download_semaphore, waiters, others, thread_pool, files, db,
                 user_tasks, user_messages, cancelling, use_count, users,
                 rejected>>

\* Lines 290-293 after the last delete: both lists are cleared.
cancel_downloads_290(u) ==
  /\ cancelling[u]
  /\ \A j \in Jobs : ~(job[j].owner = u /\ job[j].msgReg)
  /\ user_messages' = [user_messages EXCEPT ![u] = FALSE]
  /\ user_tasks' = [user_tasks EXCEPT ![u] = {}]
  /\ cancelling' = [cancelling EXCEPT ![u] = FALSE]
  /\ UNCHANGED <<job, download_semaphore, waiters, others, thread_pool, files,
                 db, use_count, users, rejected>>

\* ------------------------------------------------------------------- Next
\* The steps every download task can take, and its retrieval thread.
common_steps(j) ==
  \/ acquire(j)
  \/ process_download_378(j)
  \/ process_download_382(j)
  \/ send_cached_audio_216(j)
  \/ send_cached_audio_217(j)
  \/ process_download_677(j)
  \/ process_download_678(j)
  \/ process_download_679(j)
  \/ process_download_680(j)
  \/ download_video(j)

\* The steps of the playlist branch (lines 393-553).
playlist_steps(j) ==
  \/ process_download_397(j)
  \/ process_download_398(j)
  \/ process_download_424(j)
  \/ process_download_435(j)
  \/ process_download_441(j)
  \/ process_download_462(j)
  \/ process_download_479(j)
  \/ process_download_482(j)
  \/ process_download_497(j)
  \/ process_download_514(j)
  \/ process_download_519(j)
  \/ process_download_532(j)
  \/ process_download_534(j)
  \/ process_download_536(j)
  \/ process_download_548(j)
  \/ process_download_551(j)
  \/ process_download_552(j)
  \/ process_download_553(j)

\* The steps of the single-video branch (lines 555-659).
single_steps(j) ==
  \/ process_download_571(j)
  \/ process_download_589(j)
  \/ process_download_604(j)
  \/ process_download_607(j)
  \/ process_download_621(j)
  \/ process_download_624(j)
  \/ process_download_639(j)
  \/ process_download_650(j)
  \/ process_download_651(j)
  \/ process_download_652(j)
  \/ process_download_653(j)
  \/ process_download_656(j)
  \/ process_download_657(j)
  \/ process_download_658(j)
  \/ process_download_659(j)

\* The steps of a cancelled task.
cancelled_steps(j) ==
  \/ process_download_666(j)
  \/ process_download_671(j)
  \/ process_download_672(j)
  \/ cancelled_before_start(j)
  \/ throw_cancelled(j)

\* One step of download task j, or of its retrieval thread.
process_download(j) ==
  \/ common_steps(j)
  \/ playlist_steps(j)
  \/ single_steps(j)
  \/ cancelled_steps(j)

\* The steps of a task that is suspended in Semaphore.acquire().
acquire_suspended(j) ==
  \/ acquire_wakeup(j)
  \/ cancelled_in_acquire(j)

\* The /cancel handler of user u.
cancel_handler(u) ==
  \/ cancel_downloads_nothing(u)
  \/ cancel_downloads(u)
  \/ \E j \in Jobs : cancel_downloads_287(u, j)
  \/ cancel_downloads_290(u)

\* Tasks of chats that are not followed individually.
other_tasks ==
  \/ other_enter
  \/ other_wait
  \/ other_wakeup
  \/ other_exit

\* At most MaxActive followed tasks are unfinished at a time.
Sequential == Cardinality({k \in Jobs : job[k].pc \notin {0, 686}}) < MaxActive

\* Requests with a URL, their download tasks and /cancel.
Next ==
  \/ \E j \in Jobs, u \in Users, q \in Requests : Sequential /\ main(j, u, q)
  \/ \E j \in Jobs : process_download(j)
  \/ \E u \in Users : cancel_handler(u)

\* One followed task with the semaphore contended by the tasks of other
\* chats.  (Under Next the followed tasks alone never exhaust the
\* MAX_CONCURRENT_DOWNLOADS slots, so none of them suspends in acquire().)
NextLimiter ==
  \/ \E u \in Users, q \in Requests : main(1, u, q)
  \/ process_download(1)
  \/ acquire_suspended(1)
  \/ \E u \in Users : cancel_handler(u)
  \/ other_tasks

\* One followed task among messages that carry no URL.
NextDispatcher ==
  \/ \E u \in Users, q \in Requests : main(1, u, q)
  \/ \E u \in Users, text \in Texts : main_rejected(u, text)
  \/ process_download(1)
  \/ \E u \in Users : cancel_handler(u)

\* Single-video requests whose download tasks run at the same time.
NextConcurrent ==
  \/ \E j \in Jobs, u \in Users, q \in Requests : ~q.pl /\ main(j, u, q)
  \/ \E j \in Jobs : common_steps(j) \/ single_steps(j)

Spec == Init /\ [][Next]_vars

SpecLimiter == Init /\ [][NextLimiter]_vars

SpecDispatcher == Init /\ [][NextDispatcher]_vars

SpecConcurrent == Init /\ [][NextConcurrent]_vars

\* The same under the scheduling of the event loop: a task whose future in
\* acquire() is completed or cancelled is resumed, a woken task of another
\* chat enters, and every task of another chat that holds a slot finishes.
SpecLimiterFair ==
  /\ SpecLimiter
  /\ WF_vars(acquire_suspended(1))
  /\ WF_vars(other_wakeup)
  /\ WF_vars(other_exit)

\* ----------------------------------------------------------------- stages
\* The awaits at which an item is in a pipeline stage.
Fetching == {458, 585}          \* await download_video(...)
PostProcessing == {479, 604}    \* await process_audio(...)
Delivering == {217, 497, 624}   \* await bot.send_audio(...)
Stages == Fetching \cup PostProcessing \cup Delivering

\* Task j is inside the block of "async with download_semaphore".
InBlock(j) == job[j].pc \notin {0, 352, 355, 686}

\* The item task j works on gets its outcome Done in this step.
Delivered(j) ==
  /\ job[j].i \in DOMAIN job[j].out
  /\ job[j].out[job[j].i] = "Queued"
  /\ job'[j].out[job[j].i] = "Done"

\* ------------------------------------------------------------------ claims
\* C1: at every instant the number of items in the Fetching stage, over the
\* followed tasks and the tasks of all other chats (each of which has at
\* most one item in Fetching, and only inside the block), is at most
\* MAX_CONCURRENT_DOWNLOADS.
C1_FetchingBounded ==
  Cardinality({j \in Jobs : job[j].pc \in Fetching}) + others
    <= MAX_CONCURRENT_DOWNLOADS

\* The limit is reached: the followed task is in Fetching next to four others.
C1_Witness ==
  /\ job[1].pc \in Fetching
  /\ others = MAX_CONCURRENT_DOWNLOADS - 1

\* C2: once cancel_downloads has cancelled a task, the task enters no
\* further pipeline stage (Fetching, PostProcessing, Delivering) and starts
\* no later playlist item.
C2_NoStageAfterCancel ==
  [][\A j \in Jobs :
       job[j].wasCancelled =>
         /\ job'[j].pc \in Stages => job'[j].pc = job[j].pc
         /\ job'[j].i <= job[j].i]_vars

\* C3: once cancel_downloads has cancelled a task, no row written by that
\* task (db.add_data) is added to table music.
C3_NoCacheWriteAfterCancel ==
  [][Len(db') > Len(db) => ~job[db'[Len(db')][2][1]].wasCancelled]_vars

\* C4: an item for which get_file_id returned a file_id is neither fetched
\* nor post-processed; stated leaving aside the fallback after send_audio
\* refused the cached file_id.
C4_HitSkipsFetch ==
  \A j \in Jobs :
    (job[j].pc \in Fetching \cup PostProcessing /\ job[j].cached_file_id # None)
      => job[j].stale

\* C5: round trip: an item for which get_file_id returned the file_id r of
\* an earlier delivery, and for which send_audio did not refuse r, is
\* delivered by send_cached_audio with r, not by a new upload.
C5_RoundTrip ==
  [][\A j \in Jobs :
       (job[j].cached_file_id # None /\ ~job[j].stale /\ Delivered(j))
         => job[j].pc = 217 /\ db' = db]_vars

\* C6: in a playlist task the items leave Queued in source order and one at
\* a time: an item has an outcome only when every earlier item has one, the
\* items behind the current one are untouched (or cancelled with the task),
\* and the retrieval thread of a running task works on the current item.
C6_SequentialInOrder ==
  \A j \in Jobs :
    job[j].pl =>
      /\ \A m, n \in DOMAIN job[j].out :
           (m < n /\ job[j].out[n] # "Queued") => job[j].out[m] # "Queued"
      /\ \A n \in DOMAIN job[j].out :
           (job[j].i >= 1 /\ n > job[j].i)
             => job[j].out[n] \in {"Queued", "Cancelled"}
      /\ (job[j].pc \notin {0, 686} /\ thread_pool[j] # 0)
           => /\ job[j].i \in DOMAIN job[j].ents
              /\ thread_pool[j] = job[j].ents[job[j].i]

\* Item 2 is in Fetching after item 1 was delivered.
C6_Witness ==
  \E j \in Jobs :
    /\ job[j].pl
    /\ job[j].i = 2
    /\ job[j].pc \in Fetching
    /\ job[j].out[1] = "Done"
    /\ job[j].out[2] = "Queued"

C8_ArtifactRemoved ==
  \A j \in Jobs : job[j].pc = 686 => \A v \in Videos : files[v] # j

\* The slots that are taken: by the tasks inside the block and by the
\* futures _wake_up_next has completed (the slot is handed over with it).
Holders ==
  Cardinality({j \in Jobs : InBlock(j)}) + others
    + Cardinality({n \in 1..Len(waiters) : waiters[n].st = "done"})

\* C9: slot conservation: free slots plus holders are always
\* MAX_CONCURRENT_DOWNLOADS, whichever way a task left the block, and a task
\* that has ended (also one cancelled in acquire) has no future in the deque.
C9_SlotConservation ==
  /\ download_semaphore >= 0
  /\ download_semaphore + Holders = MAX_CONCURRENT_DOWNLOADS
  /\ \A j \in Jobs : job[j].pc \in {0, 686} => FutOf(j) = "none"

\* The task is cancelled while suspended in acquire, its future already
\* completed by a release.
C9_Witness ==
  /\ job[1].pc = 355
  /\ job[1].cancelReq
  /\ FutOf(1) = "done"

\* A pending waiter has no free slot it could take: _value is 0, or the
\* free slot is about to be handed on by a woken waiter ahead of it.
Blocked ==
  \A n \in 1..Len(waiters) :
    waiters[n].st = "pending" =>
      \/ download_semaphore = 0
      \/ \E m \in 1..(n - 1) : waiters[m].st = "done"

\* Waiters are woken oldest first.
FirstInFirstOut ==
  \A m, n \in 1..Len(waiters) :
    (m < n /\ waiters[n].st = "done") => waiters[m].st # "pending"

\* C10: a task that finds the semaphore exhausted stays suspended in acquire
\* while no slot is released, waiters are admitted in the order in which
\* they were suspended, and a suspended task eventually leaves acquire
\* (admitted, or cancelled) when every holder eventually finishes.
C10_BlocksThenAdmitted ==
  /\ []Blocked
  /\ []FirstInFirstOut
  /\ (job[1].pc = 355) ~> (job[1].pc # 355)

\* The sixth task was suspended with five holders; one of them released and
\* the slot was handed to it.
C10_Witness ==
  /\ job[1].pc = 355
  /\ ~job[1].cancelReq
  /\ FutOf(1) = "done"
  /\ others = MAX_CONCURRENT_DOWNLOADS - 1

\* User u has nothing running: no /cancel in progress, every download task
\* of the user has finished and none of their reporters is running.
Idle(u) ==
  /\ ~cancelling[u]
  /\ \A j \in Jobs :
       job[j].owner = u => job[j].pc = 686 /\ ~job[j].anim /\ job[j].strays = 0

\* C11: while a user has no unfinished download task and no running
\* reporter, a step that leaves the user in that condition (so: a /cancel,
\* not a new request) changes neither user_tasks nor user_messages of the
\* user.
C11_CancelNoOpWhenIdle ==
  [][\A u \in Users :
       (Idle(u) /\ Idle(u)') =>
         /\ user_tasks'[u] = user_tasks[u]
         /\ user_messages'[u] = user_messages[u]]_vars

\* C12: once every download task of a user has finished and none of their
\* reporters is running, user_tasks and user_messages of the user hold
\* nothing: every finished task has been removed from the registry.
C12_RegistrySelfPruning ==
  \A u \in Users :
    Idle(u) => (user_tasks[u] = {} /\ ~user_messages[u])

\* The reporters of task j that are running: the one animation_task refers
\* to and those it no longer refers to.
Reporters(j) == (IF job[j].anim THEN 1 ELSE 0) + job[j].strays

\* C13: at every instant at most one reporter of a download task is
\* running: process_download creates a reporter only after it has cancelled
\* the previous one, on the single-video path and on the playlist path.
C13_OneReporter == \A j \in Jobs : Reporters(j) <= 1

\* The reporter of the conversion is running; it is the third of the task
\* (after those of the preparation and of the retrieval).
C13_Witness ==
  \E j \in Jobs :
    /\ job[j].pc \in PostProcessing
    /\ job[j].anim
    /\ Reporters(j) = 1

\* C14: when a download task has ended, with whatever outcome, none of its
\* reporters is running any more.
C14_ReportersStoppedAtEnd ==
  \A j \in Jobs : job[j].pc = 686 => Reporters(j) = 0

\* C15: when send_audio has refused the cached file_id of an item (the row
\* is removed by send_cached_audio), the task, unless it is cancelled, goes
\* on from the fallback (line 441 for a playlist entry, line 571 for a
\* single video) to the retrieval of that item.
C15_StaleFallsBackToFetching ==
  [][\A j \in Jobs :
       (/\ job[j].stale
        /\ ~job[j].cancelReq
        /\ job[j].pc \in {441, 571}
        /\ job'[j].pc # job[j].pc)
         => job'[j].pc \in Fetching]_vars

\* C16: in every state table music holds at most one row per video_id.
C16_OneRowPerVideo ==
  \A m, n \in 1..Len(db) : db[m][1] = db[n][1] => m = n

\* The rows of a table, leaving their order aside.
Rows(d) == {d[m] : m \in 1..Len(d)}

\* C17: a row is written to table music only in the step in which the
\* upload of a freshly converted item succeeds (lines 497-510, 624-636),
\* the item getting its outcome Done in that very step, so at most once per
\* item; and no row carries the file_id of an item that ended Failed.
C17_WriteOnlyOnDelivery ==
  /\ [][Rows(db') \ Rows(db) # {} =>
          \E j \in Jobs :
            /\ job[j].pc \in {497, 624}
            /\ Delivered(j)
            /\ db' = add_data(db, Video(job[j]), NewFileId(j, job[j].i))]_vars
  /\ [](\A j \in Jobs : \A n \in DOMAIN job[j].out :
          job[j].out[n] = "Failed" => \A row \in Rows(db) : row[2] # NewFileId(j, n))

\* Of a playlist the first item failed and wrote nothing, the second was
\* uploaded and its row is the only one the task wrote.
C17_Witness ==
  \E j \in Jobs :
    /\ job[j].pl
    /\ Len(job[j].out) = 2
    /\ job[j].out[1] = "Failed"
    /\ job[j].out[2] = "Done"
    /\ \E row \in Rows(db) : row[2] = NewFileId(j, 2)
    /\ \A row \in Rows(db) : row[2] # NewFileId(j, 1)

\* C18: a message in which main finds no URL creates no download task and
\* no reporter, and leaves the registry (user_tasks, user_messages), the
\* semaphore, table music, the use counter and table users as they are.
C18_RejectedChangesNothing ==
  [][rejected' # rejected =>
       UNCHANGED <<job, download_semaphore, waiters, others, thread_pool,
                   files, db, user_tasks, user_messages, cancelling,
                   use_count, users>>]_vars

\* Such a message was handled while a download task of the user was at work.
C18_Witness ==
  /\ rejected = 1
  /\ job[1].pc \in Stages
  /\ user_tasks[1] # {}
  /\ use_count = 1

\* C19: the closing message of a playlist task of which one item failed and
\* another was delivered differs from the closing message of a playlist
\* task all of whose items were delivered.
C19_PartialSuccessReported ==
  \A j \in Jobs :
    (/\ job[j].summary # "none"
     /\ \E n \in DOMAIN job[j].out : job[j].out[n] = "Failed"
     /\ \E n \in DOMAIN job[j].out : job[j].out[n] = "Done")
      => job[j].summary # playlist_summary([n \in DOMAIN job[j].out |-> "Done"])

\* C20: a download task waits for a slot of download_semaphore (suspended
\* in acquire, line 355) or holds one (inside the block) only while an item
\* of it is in Fetching; probing and the delivery of a cached file_id
\* happen without a slot.
C20_OnlyFetchingGated ==
  \A j \in Jobs :
    (job[j].pc = 355 \/ InBlock(j)) => job[j].pc \in Fetching

\* The requests main has accepted: it has created a download task for each.
Accepted == {j \in Jobs : job[j].pc # 0}

\* C21: use_count equals the number of requests main has accepted and
\* never decreases, and table users holds the user_id of every user who
\* made one of them, each in exactly one row, and no other.
C21_AnalyticsCountsSubmissions ==
  /\ [](use_count = Cardinality(Accepted))
  /\ [][use_count' >= use_count]_vars
  /\ [](\A u \in Users :
          Cardinality({n \in 1..Len(users) : users[n] = u})
            = IF \E j \in Accepted : job[j].owner = u THEN 1 ELSE 0)

\* The same user has made two requests: the counter is at 2 and the second
\* add_user found the row of the first.
C21_Witness ==
  /\ Cardinality(Accepted) = 2
  /\ job[1].owner = job[2].owner
  /\ use_count = 2
  /\ Len(users) = 1

\* C22: an outcome, once an item has it, is the only one reported for the
\* item: a single-video task that has answered the failure of its item and
\* sleeps in the error handler (lines 651, 657) has the outcome Failed, and
\* no step takes it to the handler of CancelledError (line 666), which
\* reports the task as cancelled.
C22_TerminalAbsorbing ==
  [][\A j \in Jobs :
       job[j].pc \in {651, 657} =>
         /\ job[j].out = <<"Failed">>
         /\ job'[j].out = job[j].out
         /\ job'[j].pc # 666]_vars

\* C23: a task whose probe found a playlist without entries (lines 396-399)
\* holds its slot, has no item, no reporter running, no retrieval thread
\* and no artifact; from there it accesses neither table music nor the
\* files, enters no stage and no loop, and when it ends it releases the slot.
C23_EmptyPlaylistFailsAtOnce ==
  /\ [](\A j \in Jobs :
          job[j].pc \in {397, 398} =>
            /\ job[j].pl /\ job[j].ents = <<>> /\ job[j].out = <<>>
            /\ job[j].i = 0 /\ job[j].afp = 0 /\ job[j].cached_file_id = None
            /\ Reporters(j) = 0
            /\ thread_pool[j] = 0
            /\ InBlock(j))
  /\ [][\A j \in Jobs :
          (job[j].pc \in {397, 398} /\ job'[j] # job[j]) =>
            /\ db' = db /\ files' = files /\ thread_pool' = thread_pool
            /\ job'[j].pc \in {397, 398, 666, 677, 686}
            /\ job'[j].pc = 686 =>
                 <<download_semaphore', waiters'>>
                   = release(download_semaphore, waiters)]_vars

\* The probe of a playlist found no entries: the error has been answered
\* (line 397) and the task deletes its progress message (line 398).
C23_Witness ==
  \E j \in Jobs :
    /\ job[j].pc = 398
    /\ job[j].pl /\ job[j].ents = <<>>
    /\ ~job[j].cancelReq
    /\ Reporters(j) = 0
    /\ download_semaphore = MAX_CONCURRENT_DOWNLOADS - 1

\* C24: a task in which CancelledError has reached the handler of line 661
\* while an item was unfinished emits the cancelled status: the edit_text of
\* line 666 sets its progress message to it and the task goes on to the
\* sleep of line 671 (the handler is passed once per task).
C24_CancelledReportedOnce ==
  [][\A j \in Jobs :
       (/\ job[j].pc = 666
        /\ \E n \in DOMAIN job[j].out : job[j].out[n] = "Cancelled"
        /\ job'[j].pc # 666)
         => job'[j].pc = 671]_vars

\* The single-video task j has retrieved downloads/<id>.mp3 and has not yet
\* uploaded it.
UsesArtifact(j) ==
  /\ job[j].pc \in {589, 604, 607, 621, 624}
  /\ files[job[j].afp] # 0

\* C25: while a single-video task converts or uploads its artifact, no step
\* of another task removes that file.
C25_ArtifactNotShared ==
  [][\A j \in Jobs :
       (UsesArtifact(j) /\ job'[j] = job[j]) => files'[job[j].afp] # 0]_vars

\* C26: a row leaves table music only in the step in which send_audio
\* refuses the cached file_id of the item (line 217).
C26_EvictOnlyOnStaleDelivery ==
  [][Rows(db) \ Rows(db') # {} =>
       \E j \in Jobs : job[j].pc = 217 /\ job'[j].stale]_vars

\* C27: every download task that has started or is about to, has not
\* finished and has not been cancelled is in user_tasks of its user, where
\* the next /cancel finds it.
C27_UnfinishedTaskRegistered ==
  \A j \in Jobs :
    (job[j].pc \notin {0, 686} /\ ~job[j].wasCancelled)
      => <<"dl", j>> \in user_tasks[job[j].owner]

\* C28: at every instant the yt-dlp retrievals running in the thread pool
\* number at most MAX_CONCURRENT_DOWNLOADS: those of the followed tasks,
\* whether still awaited or not, and those of the tasks of other chats,
\* each of which may run one while it is inside the block.
C28_RetrievalsBounded ==
  Cardinality({j \in Jobs : thread_pool[j] # 0}) + others
    <= MAX_CONCURRENT_DOWNLOADS
=============================================================================
